---- MODULE Spec2Model ----
(***************************************************************************)
(* Model of wait-times-exporter (src/main.go): one run of main, from      *)
(* loadConfig through the per-view export loop to gitCommitAndPush.       *)
(* Every external call (godotenv, database/sql, os, os/exec, time) is a   *)
(* step whose outcome is chosen by the environment; the program's own     *)
(* control flow, its local variables and what it prints are the state.    *)
(***************************************************************************)
EXTENDS Integers, Sequences, FiniteSets, TLC

VARIABLES
    pc,          \* position in main / gitCommitAndPush
    environ,     \* process environment: DB_PORT and OUTPUT_DIR (Unset or a value)
    config,      \* the Config returned by loadConfig (Port, OutputDir)
    dbState,     \* "none" | "open" | "closed": the *sql.DB handle
    clock,       \* wall clock <<day, half>>, advanced by the environment
    currentDate, \* main's currentDate
    idx,         \* index of the loop variable `view` in views
    jsonData,    \* main's jsonData of the current iteration
    prettyJSON,  \* main's prettyJSON of the current iteration
    files,       \* file system: the files below OutputDir and their content
    cwd,         \* the process working directory
    currentDir,  \* gitCommitAndPush's currentDir
    gitErr,      \* what gitCommitAndPush returned ("pending" before it returns)
    calls,       \* external calls made so far, in order
    stdout       \* lines printed so far, in order

vars == <<pc, environ, config, dbState, clock, currentDate, idx, jsonData,
          prettyJSON, files, cwd, currentDir, gitErr, calls, stdout>>

-----------------------------------------------------------------------------
(* Bounds of the model *)

\* Largest number of rows a view returns.
MaxRows == 2
\* Last day the wall clock can reach (the run starts on day 0).
MaxDay == 1

-----------------------------------------------------------------------------
(* Values *)

Unset == <<"unset">>

\* Strings DB_PORT can hold, as sequences of characters.
PortStrings == { <<"5", "4">>, <<"-", "1">>, <<"x">>, <<"5", "x">>, <<>> }

\* Values OUTPUT_DIR can hold, as sequences of path components.
DirStrings == { <<"/", "srv", "out">> }

\* The directory the process is started in.
StartDir == <<"/", "app">>

\* src/main.go:102-106
views == <<"hospital_seven_avg_change", "daily_wait_time_stats", "monthly_avg_wait_times">>

Views == { views[i] : i \in 1..Len(views) }

\* A []byte holding (or not) a JSON text. kind "nil" is Go's nil slice,
\* "array" a JSON array of `rows` row objects, "null" the JSON literal null,
\* "garbage" bytes that are not JSON.
Bytes(kind, rows) == [kind |-> kind, rows |-> rows]
Nil == Bytes("nil", 0)
EmptyArray == Bytes("array", 0)
JsonNull == Bytes("null", 0)
Garbage == Bytes("garbage", 0)

\* What Scan can leave in jsonData after a successful QueryRow: SQL NULL
\* (json_agg over no rows) scans to nil, otherwise the bytes the server sent.
ScanResults == {Nil, Garbage} \cup { Bytes("array", n) : n \in 1..MaxRows }

\* A serialized JSON object: its members in order, and its indentation.
NoDoc == [indent |-> 0, members |-> <<>>, ok |-> FALSE]

\* Combined outputs of a failing `git commit`, as sequences of words.
OutClean == <<"On", "branch", "main", "nothing", "to", "commit", "working", "tree", "clean">>
OutUntracked == <<"nothing", "added", "to", "commit", "but", "untracked", "files", "present">>
OutFatal == <<"fatal", "unable", "to", "auto-detect", "email", "address">>

CommitOutputs == {OutClean, OutUntracked, OutFatal}

NothingToCommit == <<"nothing", "to", "commit">>

-----------------------------------------------------------------------------
(* Pure functions *)

Digits == {"0", "1", "4", "5"}

DigitVal(c) == CASE c = "0" -> 0 [] c = "1" -> 1 [] c = "4" -> 4 [] c = "5" -> 5

RECURSIVE ParseDigits(_, _)
ParseDigits(s, acc) ==
    IF s = <<>> THEN acc
    ELSE ParseDigits(Tail(s), acc * 10 + DigitVal(Head(s)))

\* An Atoi whose error is dropped: the zero value stands for the port.
AtoiErrIgnored(s) ==
    LET body  == IF s # <<>> /\ Head(s) \in {"+", "-"} THEN Tail(s) ELSE s
        valid == body # <<>> /\ \A i \in 1..Len(body) : body[i] \in Digits
    IN  [err |-> FALSE, val |-> IF valid THEN ParseDigits(body, 0) ELSE 0]

\* strconv.Atoi: an optional sign, then at least one digit and only digits.
Atoi(s) ==
    LET signed == s # <<>> /\ Head(s) \in {"+", "-"}
        body   == IF signed THEN Tail(s) ELSE s
        valid  == body # <<>> /\ \A i \in 1..Len(body) : body[i] \in Digits
    IN  IF ~valid THEN [err |-> TRUE, val |-> 0]
        ELSE [err |-> FALSE,
              val |-> IF signed /\ Head(s) = "-"
                      THEN 0 - ParseDigits(body, 0)
                      ELSE ParseDigits(body, 0)]

\* os.Getenv: the empty string when the variable is not set.
Getenv(env, key) == IF env[key] = Unset THEN <<>> ELSE env[key]

getEnvWithDefault(env, key, defaultValue) ==
    IF env[key] # Unset THEN env[key] ELSE defaultValue

\* godotenv.Load: a variable of the file is set unless the process has it already.
DotenvMerge(env, file) ==
    [k \in DOMAIN env |-> IF env[k] # Unset THEN env[k] ELSE file[k]]

\* time.Format("2006-01-02"): the day, the time of day dropped.
Format(t) == t[1]

\* json.Valid, as json.Marshal and json.Indent decide it.
ValidJSON(b) == b.kind \in {"array", "null"}

\* json.RawMessage.MarshalJSON: a nil message encodes as null.
RawMessage(b) == IF b.kind = "nil" THEN JsonNull ELSE b

\* The nil result left as it is.
NormalizeSkipped(b) == b

\* src/main.go:121-123
Normalize(b) == IF b.kind = "nil" THEN EmptyArray ELSE b

\* A wrapper whose first key is misspelt.
addExportDateMisspelt(data, date) ==
    IF ~ValidJSON(RawMessage(data))
    THEN [err |-> TRUE, doc |-> NoDoc]
    ELSE [err |-> FALSE,
          doc |-> [indent |-> 0, ok |-> TRUE,
                   members |-> << <<"Data", RawMessage(data)>>,
                                  <<"data", RawMessage(data)>>,
                                  <<"export_date", date>> >>]]

\* src/main.go:161-170. json.Marshal writes a map's keys in sorted order and
\* fails when a RawMessage is not valid JSON.
addExportDateToJSON(data, date) ==
    IF ~ValidJSON(RawMessage(data))
    THEN [err |-> TRUE, doc |-> NoDoc]
    ELSE [err |-> FALSE,
          doc |-> [indent |-> 0, ok |-> TRUE,
                   members |-> << <<"data", RawMessage(data)>>,
                                  <<"export_date", date>> >>]]

\* json.Indent(&prettyJSON, jsonData, "", "  ")
Indent(doc) ==
    IF ~doc.ok THEN [err |-> TRUE, doc |-> NoDoc]
    ELSE [err |-> FALSE, doc |-> [doc EXCEPT !.indent = 2]]

\* filepath.Join(config.OutputDir, fmt.Sprintf("%s.json", view))
Filename(dir, view) == Append(dir, <<view, ".json">>)

\* A search for the first word alone.
ContainsFirstWord(s, sub) == \E i \in 1..Len(s) : s[i] = sub[1]

\* bytes.Contains on word sequences.
Contains(s, sub) ==
    \E i \in 0..(Len(s) - Len(sub)) : \A j \in 1..Len(sub) : s[i + j] = sub[j]

\* The directory os.Chdir(path) leads to from dir.
Resolve(dir, path) == IF path # <<>> /\ Head(path) = "/" THEN path ELSE dir \o path

Keys(doc) == { doc.members[i][1] : i \in 1..Len(doc.members) }

Member(doc, key) ==
    LET i == CHOOSE j \in 1..Len(doc.members) : doc.members[j][1] = key
    IN  doc.members[i][2]

-----------------------------------------------------------------------------
(* Helpers of the actions *)

Environs == [DB_PORT : PortStrings \cup {Unset}, OUTPUT_DIR : DirStrings \cup {Unset}]

NoConfig == [Port |-> 0, OutputDir |-> <<>>]

view == views[idx]

Emit(msg) == stdout' = Append(stdout, msg)

Call(c) == calls' = Append(calls, c)

\* A return from main: the deferred db.Close() of line 81 runs if it was registered.
ReturnFromMain ==
    /\ pc' = "done"
    /\ dbState' = IF dbState = "open" THEN "closed" ELSE dbState

\* The loop header of line 109: the next view, or the statement after the loop.
NextView ==
    /\ idx' = idx + 1
    /\ jsonData' = Nil
    /\ prettyJSON' = NoDoc
    /\ pc' = IF idx + 1 > Len(views) THEN "getwd" ELSE "query"

\* A `break` in the place of `continue`.
Break ==
    /\ idx' = idx
    /\ jsonData' = Nil
    /\ prettyJSON' = NoDoc
    /\ pc' = "getwd"

\* The `continue` of lines 117, 129, 137 and 145.
Continue == NextView

\* A return that leaves the working directory where git ran.
ReturnNoRestore(err, c) ==
    /\ gitErr' = err
    /\ calls' = Append(calls, c)
    /\ cwd' = cwd
    /\ pc' = "report"

\* A return from gitCommitAndPush before the defer of line 183 is registered.
ReturnEarly(err, c) ==
    /\ gitErr' = err
    /\ calls' = Append(calls, c)
    /\ cwd' = cwd
    /\ pc' = "report"

\* A return from gitCommitAndPush after line 183: the deferred
\* os.Chdir(currentDir) runs. Its error is discarded; the directory the
\* process was started in stays in place for the whole run, so the call
\* succeeds.
ReturnDeferred(err, c) ==
    /\ gitErr' = err
    /\ calls' = calls \o <<c, <<"os.Chdir", currentDir>>>>
    /\ cwd' = currentDir
    /\ pc' = "report"

WriteTo(fs, name, content) ==
    [f \in DOMAIN fs \cup {name} |-> IF f = name THEN content ELSE fs[f]]

-----------------------------------------------------------------------------
(* Initial state *)

Init ==
    /\ pc = "loadConfig"
    /\ environ \in Environs
    /\ config = NoConfig
    /\ dbState = "none"
    /\ clock = <<0, 1>>
    /\ currentDate = 0
    /\ idx = 1
    /\ jsonData = Nil
    /\ prettyJSON = NoDoc
    /\ files = <<>>
    /\ cwd = StartDir
    /\ currentDir = <<>>
    /\ gitErr = "pending"
    /\ calls = <<>>
    /\ stdout = <<>>

-----------------------------------------------------------------------------
(* main, lines 64-99 *)

\* loadConfig and lines 66-70. `loaded` is whether godotenv.Load could read
\* the .env file, `file` what the file sets.
LoadConfig ==
    /\ pc = "loadConfig"
    /\ \E loaded \in BOOLEAN, file \in Environs :
         LET env == IF loaded THEN DotenvMerge(environ, file) ELSE environ
             port == Atoi(Getenv(env, "DB_PORT"))
         IN  /\ (~loaded) => file = [DB_PORT |-> Unset, OUTPUT_DIR |-> Unset]
             /\ environ' = env
             /\ Call(<<"godotenv.Load">>)
             /\ IF ~loaded \/ port.err
                THEN /\ Emit(<<"Error loading configuration">>)
                     /\ config' = config
                     /\ ReturnFromMain
                ELSE /\ config' = [Port |-> port.val,
                                   OutputDir |-> getEnvWithDefault(env, "OUTPUT_DIR",
                                                                   <<"data_exports">>)]
                     /\ pc' = "open"
                     /\ UNCHANGED <<dbState, stdout>>
    /\ UNCHANGED <<clock, currentDate, idx, jsonData, prettyJSON, files, cwd, currentDir, gitErr>>

\* sql.Open, lines 76-81.
SqlOpen ==
    /\ pc = "open"
    /\ Call(<<"sql.Open", config.Port>>)
    /\ \E ok \in BOOLEAN :
         IF ok
         THEN /\ dbState' = "open"
              /\ pc' = "ping"
              /\ UNCHANGED stdout
         ELSE /\ Emit(<<"Error connecting to database">>)
              /\ ReturnFromMain
    /\ UNCHANGED <<environ, config, clock, currentDate, idx, jsonData, prettyJSON, files, cwd,
                   currentDir, gitErr>>

\* A ping whose failure is printed and not returned on.
PingNoReturn ==
    /\ pc = "ping"
    /\ Call(<<"db.Ping">>)
    /\ \E ok \in BOOLEAN :
         /\ Emit(IF ok THEN <<"Successfully connected to the database">>
                       ELSE <<"Error pinging database">>)
         /\ pc' = "mkdir"
         /\ UNCHANGED dbState
    /\ UNCHANGED <<environ, config, clock, currentDate, idx, jsonData, prettyJSON, files, cwd,
                   currentDir, gitErr>>

\* db.Ping, lines 84-89.
Ping ==
    /\ pc = "ping"
    /\ Call(<<"db.Ping">>)
    /\ \E ok \in BOOLEAN :
         IF ok
         THEN /\ Emit(<<"Successfully connected to the database">>)
              /\ pc' = "mkdir"
              /\ UNCHANGED dbState
         ELSE /\ Emit(<<"Error pinging database">>)
              /\ ReturnFromMain
    /\ UNCHANGED <<environ, config, clock, currentDate, idx, jsonData, prettyJSON, files, cwd,
                   currentDir, gitErr>>

\* os.MkdirAll, lines 92-96.
MkdirAll ==
    /\ pc = "mkdir"
    /\ Call(<<"os.MkdirAll", config.OutputDir>>)
    /\ \E ok \in BOOLEAN :
         IF ok
         THEN /\ pc' = "date"
              /\ UNCHANGED <<dbState, stdout>>
         ELSE /\ Emit(<<"Error creating output directory">>)
              /\ ReturnFromMain
    /\ UNCHANGED <<environ, config, clock, currentDate, idx, jsonData, prettyJSON, files, cwd,
                   currentDir, gitErr>>

\* Line 99: the date is taken once, before the loop.
SetCurrentDate ==
    /\ pc = "date"
    /\ currentDate' = Format(clock)
    /\ idx' = 1
    /\ pc' = "query"
    /\ UNCHANGED <<environ, config, dbState, clock, jsonData, prettyJSON, files, cwd, currentDir,
                   gitErr, calls, stdout>>

\* The wall clock advances between any two steps of the run.
Tick ==
    /\ pc # "done"
    /\ clock[1] < MaxDay
    /\ clock' = IF clock[2] = 0 THEN <<clock[1], 1>> ELSE <<clock[1] + 1, 0>>
    /\ UNCHANGED <<pc, environ, config, dbState, currentDate, idx, jsonData, prettyJSON, files,
                   cwd, currentDir, gitErr, calls, stdout>>

-----------------------------------------------------------------------------
(* main, the loop of lines 109-149 *)

\* Lines 111-123: the query of the view, and the nil result made "[]".
QueryView ==
    /\ pc = "query"
    /\ \E failed \in BOOLEAN, r \in ScanResults :
         /\ failed => r = Nil
         /\ Call(<<"db.QueryRow", view, IF failed THEN "error" ELSE r.kind>>)
         /\ IF failed
            THEN /\ Emit(<<"Error querying view", view>>)
                 /\ Continue
            ELSE /\ jsonData' = Normalize(r)
                 /\ pc' = "wrap"
                 /\ UNCHANGED <<idx, prettyJSON, stdout>>
    /\ UNCHANGED <<environ, config, dbState, clock, currentDate, files, cwd,
                   currentDir, gitErr>>

\* A date taken again for each document.
ExportDateNow == Format(clock)

\* The date of the document, as line 126 passes it.
ExportDate == currentDate

\* Lines 126-138: the export date added, the result indented.
WrapAndIndent ==
    /\ pc = "wrap"
    /\ LET wrapped == addExportDateToJSON(jsonData, ExportDate)
           pretty  == Indent(wrapped.doc)
       IN  IF wrapped.err
           THEN /\ Emit(<<"Error adding date to JSON for", view>>)
                /\ Continue
           ELSE IF pretty.err
           THEN /\ Emit(<<"Error formatting JSON for", view>>)
                /\ Continue
           ELSE /\ prettyJSON' = pretty.doc
                /\ pc' = "write"
                /\ UNCHANGED <<idx, jsonData, stdout>>
    /\ UNCHANGED <<environ, config, dbState, clock, currentDate, files, cwd,
                   currentDir, gitErr, calls>>

\* Lines 141-148. A failed os.WriteFile leaves the file as it was or, when
\* the failure came after the open, truncated.
WriteFile ==
    /\ pc = "write"
    /\ LET filename == Filename(config.OutputDir, view)
       IN  \E res \in {"ok", "not opened", "truncated"} :
             /\ Call(<<"os.WriteFile", filename, res>>)
             /\ files' = CASE res = "ok" -> WriteTo(files, filename, prettyJSON)
                           [] res = "truncated" -> WriteTo(files, filename, NoDoc)
                           [] OTHER -> files
             /\ IF res = "ok"
                THEN /\ Emit(<<"Successfully exported", view, filename>>)
                     /\ NextView
                ELSE /\ Emit(<<"Error writing file", filename>>)
                     /\ Continue
    /\ UNCHANGED <<environ, config, dbState, clock, currentDate, cwd, currentDir,
                   gitErr>>

-----------------------------------------------------------------------------
(* gitCommitAndPush, lines 172-214, called at line 152 with
   repoPath = config.OutputDir and commitMessage = currentDate *)

Getwd ==
    /\ pc = "getwd"
    /\ \E ok \in BOOLEAN :
         IF ok
         THEN /\ currentDir' = cwd
              /\ Call(<<"os.Getwd">>)
              /\ pc' = "chdir"
              /\ UNCHANGED <<cwd, gitErr>>
         ELSE /\ ReturnEarly("failed to get current directory", <<"os.Getwd">>)
              /\ UNCHANGED currentDir
    /\ UNCHANGED <<environ, config, dbState, clock, currentDate, idx, jsonData,
                   prettyJSON, files, stdout>>

Chdir ==
    /\ pc = "chdir"
    /\ \E ok \in BOOLEAN :
         IF ok
         THEN /\ cwd' = Resolve(cwd, config.OutputDir)
              /\ Call(<<"os.Chdir", config.OutputDir>>)
              /\ pc' = "add"
              /\ UNCHANGED gitErr
         ELSE ReturnEarly("failed to change directory", <<"os.Chdir", config.OutputDir>>)
    /\ UNCHANGED <<environ, config, dbState, clock, currentDate, idx, jsonData,
                   prettyJSON, files, currentDir, stdout>>

\* A git add whose failure is not returned on.
GitAddErrIgnored ==
    /\ pc = "add"
    /\ \E ok \in BOOLEAN :
         /\ Call(<<"git add", cwd, IF ok THEN "exit 0" ELSE "exit 1">>)
         /\ Emit(<<"Added files to Git staging area">>)
         /\ pc' = "commit"
         /\ UNCHANGED <<cwd, gitErr>>
    /\ UNCHANGED <<environ, config, dbState, clock, currentDate, idx, jsonData,
                   prettyJSON, files, currentDir>>

\* Lines 186-190.
GitAdd ==
    /\ pc = "add"
    /\ \E ok \in BOOLEAN :
         IF ok
         THEN /\ Call(<<"git add", cwd, "exit 0">>)
              /\ Emit(<<"Added files to Git staging area">>)
              /\ pc' = "commit"
              /\ UNCHANGED <<cwd, gitErr>>
         ELSE /\ ReturnDeferred("git add failed", <<"git add", cwd, "exit 1">>)
              /\ UNCHANGED stdout
    /\ UNCHANGED <<environ, config, dbState, clock, currentDate, idx, jsonData,
                   prettyJSON, files, currentDir>>

\* Lines 193-204.
GitCommit ==
    /\ pc = "commit"
    /\ LET commitMsg == <<"Data export", currentDate>>
       IN  \E ok \in BOOLEAN, output \in CommitOutputs :
             /\ ok => output = OutClean
             /\ IF ok
                THEN /\ Call(<<"git commit", commitMsg, "exit 0", <<>> >>)
                     /\ Emit(<<"Committed changes with message", commitMsg>>)
                     /\ pc' = "push"
                     /\ UNCHANGED <<cwd, gitErr>>
                ELSE IF ~Contains(output, NothingToCommit)
                THEN /\ ReturnDeferred("git commit failed",
                                       <<"git commit", commitMsg, "exit 1", output>>)
                     /\ UNCHANGED stdout
                ELSE /\ ReturnDeferred("nil", <<"git commit", commitMsg, "exit 1", output>>)
                     /\ Emit(<<"Nothing to commit, working tree clean">>)
    /\ UNCHANGED <<environ, config, dbState, clock, currentDate, idx, jsonData,
                   prettyJSON, files, currentDir>>

\* Lines 207-213.
GitPush ==
    /\ pc = "push"
    /\ \E ok \in BOOLEAN :
         IF ok
         THEN /\ ReturnDeferred("nil", <<"git push", cwd, "exit 0">>)
              /\ Emit(<<"Pushed changes to remote repository">>)
         ELSE /\ ReturnDeferred("git push failed", <<"git push", cwd, "exit 1">>)
              /\ UNCHANGED stdout
    /\ UNCHANGED <<environ, config, dbState, clock, currentDate, idx, jsonData,
                   prettyJSON, files, currentDir>>

\* A main that does not look at gitCommitAndPush's result.
ReportErrIgnored ==
    /\ pc = "report"
    /\ Emit(<<"Data export and Git operations completed successfully">>)
    /\ ReturnFromMain
    /\ UNCHANGED <<environ, config, clock, currentDate, idx, jsonData, prettyJSON,
                   files, cwd, currentDir, gitErr, calls>>

\* Lines 152-158: what main does with gitCommitAndPush's result.
Report ==
    /\ pc = "report"
    /\ IF gitErr # "nil"
       THEN Emit(<<"Error with Git operations", gitErr>>)
       ELSE Emit(<<"Data export and Git operations completed successfully">>)
    /\ ReturnFromMain
    /\ UNCHANGED <<environ, config, clock, currentDate, idx, jsonData, prettyJSON,
                   files, cwd, currentDir, gitErr, calls>>

-----------------------------------------------------------------------------

Next ==
    \/ LoadConfig
    \/ SqlOpen
    \/ Ping
    \/ MkdirAll
    \/ SetCurrentDate
    \/ QueryView
    \/ WrapAndIndent
    \/ WriteFile
    \/ Getwd
    \/ Chdir
    \/ GitAdd
    \/ GitCommit
    \/ GitPush
    \/ Report
    \/ Tick

Spec == Init /\ [][Next]_vars

-----------------------------------------------------------------------------
(* What a state records of the run so far *)

CallsTo(fn) == { i \in 1..Len(calls) : calls[i][1] = fn }

Printed(line) == \E i \in 1..Len(stdout) : stdout[i][1] = line

PrintedFor(line, what) ==
    \E i \in 1..Len(stdout) : stdout[i][1] = line /\ stdout[i][2] = what

SnapshotFile(v) == Filename(config.OutputDir, v)

Queried(v) == \E i \in CallsTo("db.QueryRow") : calls[i][2] = v

QueryReturned(v, kind) ==
    \E i \in CallsTo("db.QueryRow") : calls[i][2] = v /\ calls[i][3] = kind

\* The writes of v's snapshot file that succeeded.
WritesOf(v) ==
    { i \in CallsTo("os.WriteFile") : calls[i][2] = SnapshotFile(v) /\ calls[i][3] = "ok" }

Written(v) ==
    /\ WritesOf(v) # {}
    /\ SnapshotFile(v) \in DOMAIN files
    /\ files[SnapshotFile(v)].ok

ViewFailed(v) ==
    \/ PrintedFor("Error querying view", v)
    \/ PrintedFor("Error adding date to JSON for", v)
    \/ PrintedFor("Error formatting JSON for", v)
    \/ PrintedFor("Error writing file", SnapshotFile(v))

\* The statement after the loop has been reached.
LoopLeft == pc \in {"getwd", "chdir", "add", "commit", "push", "report"} \/ gitErr # "pending"

\* gitCommitAndPush has returned.
GitReturned == gitErr # "pending"

GitCommands == CallsTo("git add") \cup CallsTo("git commit") \cup CallsTo("git push")

\* An optional sign and then one decimal digit or more.
IsInteger(s) ==
    LET body == IF s # <<>> /\ Head(s) \in {"+", "-"} THEN Tail(s) ELSE s
    IN  /\ body # <<>>
        /\ \A i \in 1..Len(body) :
             body[i] \in {"0", "1", "2", "3", "4", "5", "6", "7", "8", "9"}

\* phrase occurs in output as a run of consecutive words.
Mentions(output, phrase) ==
    \E i \in 1..Len(output) :
        /\ i + Len(phrase) - 1 <= Len(output)
        /\ SubSeq(output, i, i + Len(phrase) - 1) = phrase

-----------------------------------------------------------------------------
(* The claims *)

\* C1: once the loop is left, every one of the three views has been queried,
\* and every view none of whose steps failed has its snapshot file written,
\* whichever other views failed.
C1_ErrorIsolation ==
    LoopLeft =>
        \A v \in Views : Queried(v) /\ (~ViewFailed(v) => Written(v))

\* The first view's query failed and the two after it were written.
C1_Witness ==
    /\ LoopLeft
    /\ PrintedFor("Error querying view", views[1])
    /\ Written(views[2])
    /\ Written(views[3])

\* C2: when the settings file cannot be loaded, or DB_PORT is unset or no
\* integer once it has been read, the run is over and has opened no
\* connection, pinged nothing, created no directory, queried no view,
\* written no file and run no git command.
C2_ConfigFailureStopsTheRun ==
    (/\ pc # "loadConfig"
     /\ \/ Printed("Error loading configuration")
        \/ ~IsInteger(Getenv(environ, "DB_PORT")))
    => /\ pc = "done"
       /\ \A i \in 1..Len(calls) : calls[i][1] = "godotenv.Load"
       /\ dbState = "none"
       /\ files = <<>>
       /\ cwd = StartDir

\* The settings file was read and DB_PORT is not a number.
C2_Witness ==
    /\ pc = "done"
    /\ environ["DB_PORT"] = <<"5", "x">>
    /\ environ["OUTPUT_DIR"] # Unset
    /\ Printed("Error loading configuration")

C4_NothingToCommitIsSuccess ==
    \A i \in CallsTo("git commit") :
        calls[i][3] = "exit 1" =>
            IF Mentions(calls[i][4], NothingToCommit)
            THEN /\ gitErr = "nil"
                 /\ pc = "done" =>
                      /\ Printed("Data export and Git operations completed successfully")
                      /\ ~Printed("Error with Git operations")
            ELSE /\ gitErr = "git commit failed"
                 /\ pc = "done" =>
                      /\ Printed("Error with Git operations")
                      /\ ~Printed("Data export and Git operations completed successfully")

\* The run is over after a commit that found nothing to commit.
C4_Witness ==
    /\ pc = "done"
    /\ \E i \in CallsTo("git commit") : calls[i][3] = "exit 1" /\ calls[i][4] = OutClean

\* C5: the snapshot files written in the run have one export_date, and it is
\* the date of the commit message.
C5_OneExportDate ==
    \A v \in Views :
        Written(v) =>
            /\ \A w \in Views :
                 Written(w) => Member(files[SnapshotFile(v)], "export_date")
                               = Member(files[SnapshotFile(w)], "export_date")
            /\ \A i \in CallsTo("git commit") :
                 calls[i][2] = <<"Data export", Member(files[SnapshotFile(v)], "export_date")>>

\* Midnight passed during the run, all three files were written, and the
\* commit was made.
C5_Witness ==
    /\ \A v \in Views : Written(v)
    /\ CallsTo("git commit") # {}
    /\ Format(clock) # currentDate

\* C6: a view whose query returned NULL has data [] in its snapshot file, and
\* no written snapshot file has data null or no data.
C6_NullIsEmptyArray ==
    \A v \in Views :
        Written(v) =>
            /\ "data" \in Keys(files[SnapshotFile(v)])
            /\ Member(files[SnapshotFile(v)], "data").kind = "array"
            /\ QueryReturned(v, "nil") =>
                 Member(files[SnapshotFile(v)], "data") = EmptyArray

\* A view returned NULL and its file was written, another returned rows.
C6_Witness ==
    /\ QueryReturned(views[1], "nil")
    /\ Written(views[1])
    /\ Written(views[2])
    /\ Member(files[SnapshotFile(views[2])], "data").rows > 0

\* C7: when the connection cannot be opened, the ping fails or the output
\* directory cannot be created, the run is over: no view has been queried,
\* no file written, no part of the publisher run, and the steps before the
\* loop were each tried at most once.
C7_FatalBeforeExport ==
    (\/ Printed("Error connecting to database")
     \/ Printed("Error pinging database")
     \/ Printed("Error creating output directory"))
    => /\ pc = "done"
       /\ CallsTo("db.QueryRow") = {}
       /\ CallsTo("os.WriteFile") = {}
       /\ files = <<>>
       /\ CallsTo("os.Getwd") = {}
       /\ CallsTo("os.Chdir") = {}
       /\ GitCommands = {}
       /\ ~GitReturned
       /\ Cardinality(CallsTo("sql.Open")) <= 1
       /\ Cardinality(CallsTo("db.Ping")) <= 1
       /\ Cardinality(CallsTo("os.MkdirAll")) <= 1

\* The connection was opened and pinged, and the directory was not created.
C7_Witness ==
    /\ pc = "done"
    /\ Printed("Error creating output directory")
    /\ dbState = "closed"

\* Every step of every view succeeded.
AllViewsSucceeded == LoopLeft /\ \A v \in Views : ~ViewFailed(v)

\* C8: in a run where every step of every view succeeded, three files were
\* written, one for each view and none twice, no other file exists below the
\* output directory, and each document has the keys data and export_date and
\* no other.
C8_OneFilePerView ==
    AllViewsSucceeded =>
        /\ Cardinality(CallsTo("os.WriteFile")) = Len(views)
        /\ \A v \in Views : Cardinality(WritesOf(v)) = 1
        /\ DOMAIN files = { SnapshotFile(v) : v \in Views }
        /\ \A f \in DOMAIN files :
             /\ files[f].ok
             /\ Keys(files[f]) = {"data", "export_date"}
             /\ Len(files[f].members) = 2

\* The run is over and nothing failed in it.
C8_Witness ==
    /\ pc = "done"
    /\ AllViewsSucceeded
    /\ Printed("Pushed changes to remote repository")

C10_PublisherOnceAfterLoop ==
    /\ CallsTo("os.Getwd") # {} =>
         \A v \in Views :
            \E i \in CallsTo("db.QueryRow") :
                /\ calls[i][2] = v
                /\ \A g \in CallsTo("os.Getwd") : i < g
    /\ Cardinality(CallsTo("os.Getwd")) <= 1
    /\ (/\ pc = "done"
        /\ CallsTo("os.MkdirAll") # {}
        /\ ~Printed("Error creating output directory"))
       => /\ Cardinality(CallsTo("os.Getwd")) = 1
          /\ GitReturned
          /\ Printed("Data export and Git operations completed successfully")
             <=> gitErr = "nil"

\* All three views failed, no file was written, and the run ended with the
\* success line.
C10_Witness ==
    /\ pc = "done"
    /\ \A v \in Views : ViewFailed(v)
    /\ files = <<>>
    /\ Printed("Data export and Git operations completed successfully")

====
